---- MODULE Spec2Model ----
(***************************************************************************)
(* Model of daemon/src/render.rs (wpaperd): the Renderer, its two          *)
(* Wallpaper slots, the animation timer and the part of the OpenGL ES      *)
(* context the Renderer acts on (texture names, the two texture units,     *)
(* the vertex buffer, the u_progress uniform and the pending error flag).  *)
(*                                                                         *)
(* Numbers.  f32 values are modelled as exact rationals <<n, d>> in lowest *)
(* terms with d > 0.  Every comparison the code makes on progress is       *)
(* against 0.5 or 1.0, both representable; IEEE division is correctly      *)
(* rounded and monotone, so for elapsed/300 the comparisons on the exact   *)
(* quotient and on its f32 rounding agree, and the f32 remainder by 0.5    *)
(* and the doubling are exact.  The image and display sizes used below     *)
(* have ratios that are powers of two, for which the f32 geometry          *)
(* arithmetic is exact as well.                                            *)
(*                                                                         *)
(* u32 ticks are modelled as words of TickBits bits (TLC's integers are    *)
(* 32-bit signed): arithmetic on them is taken modulo Word, and an         *)
(* arithmetic overflow panics when the build has overflow checks (debug    *)
(* profile) and wraps when it has not (release profile).                   *)
(*                                                                         *)
(* clear_after_draw (l. 567-579) only resets buffer bindings that are not  *)
(* part of the modelled context and is left out.                           *)
(***************************************************************************)
EXTENDS Integers, Sequences, FiniteSets, TLC

(* ------------------------------ bounds -------------------------------- *)

\* width of the modelled tick word (u32 in the source)
TickBits == 10
\* number of texture names the GL implementation can hand out
MaxTextures == 4
\* number of OpenGL calls that raise an error in one behaviour
MaxFaults == 1

Word == 2 ^ TickBits

\* ticks given to start_animation, and to draw and is_drawing_animation
StartTimes == {100}
DrawTimes == {50, 100, 251, 400}
QueryTimes == {251}
DrawModes == {"Fit", "Stretch"}
SetModes == {"Fit", "Fill"}
LoadModes == {"Fit", "Stretch"}
\* the same for the specification of the animation clock
ClockStartTimes == {100, Word - 100}
ClockTimes == {50, 100, 249, 250, 251, 399, 400, Word - 100, Word - 1}
\* the OpenGL call of draw, and of load_wallpaper, that fails (0: none)
DrawFails == 0..9
LoadFails == 0..12

\* decoded images (width, height) and display sizes (scaled width, height)
Images == {<<20, 10>>, <<10, 20>>}
\* arguments of the specification with failing OpenGL calls
FaultImages == {<<10, 20>>}
FaultModes == {"Fit", "Fill"}
FaultTimes == {251}
Displays == {<<20, 10>>}
\* arguments of the specification of the geometry: images of the display's
\* ratio, narrower and wider, on a landscape and a portrait display
GeometryImages == {<<20, 10>>, <<10, 20>>, <<40, 10>>}
GeometryDisplays == {<<20, 10>>, <<10, 20>>}
GeometryTimes == {251}

Modes == {"Stretch", "Fill", "Fit", "Tile"}

TextureNames == 1..MaxTextures

(* ----------------------------- rationals ------------------------------ *)

RECURSIVE GCD(_, _)
GCD(a, b) == IF b = 0 THEN a ELSE GCD(b, a % b)

Abs(x) == IF x < 0 THEN -x ELSE x

\* n/d in lowest terms, d # 0
Q(n, d) ==
    LET g == GCD(Abs(n), Abs(d))
        s == IF d < 0 THEN -1 ELSE 1
    IN  <<(s * n) \div g, (s * d) \div g>>

QInt(n) == <<n, 1>>
QAdd(a, b) == Q(a[1] * b[2] + b[1] * a[2], a[2] * b[2])
QSub(a, b) == Q(a[1] * b[2] - b[1] * a[2], a[2] * b[2])
QMul(a, b) == Q(a[1] * b[1], a[2] * b[2])
QDiv(a, b) == Q(a[1] * b[2], a[2] * b[1])
QNeg(a) == <<-a[1], a[2]>>
QLt(a, b) == a[1] * b[2] < b[1] * a[2]
QLe(a, b) == a[1] * b[2] <= b[1] * a[2]
QMin(a, b) == IF QLt(b, a) THEN b ELSE a
\* truncating division, as f32 % truncates toward zero
QTrunc(a) ==
    IF a[1] >= 0 THEN a[1] \div a[2] ELSE -((-a[1]) \div a[2])
\* f32 remainder a % m
QRem(a, m) == QSub(a, QMul(QInt(QTrunc(QDiv(a, m))), m))

Zero == QInt(0)
One == QInt(1)
Half == Q(1, 2)
Two == QInt(2)

(* ------------------------ Coordinates (l. 106-150) --------------------- *)

Coordinates(x_left, x_right, y_bottom, y_top) ==
    [x_left |-> x_left, x_right |-> x_right, y_bottom |-> y_bottom, y_top |-> y_top]

VEC_X_LEFT == QInt(-1)
VEC_X_RIGHT == QInt(1)
VEC_Y_BOTTOM == QInt(1)
VEC_Y_TOP == QInt(-1)

TEX_X_LEFT == QInt(0)
TEX_X_RIGHT == QInt(1)
TEX_Y_BOTTOM == QInt(0)
TEX_Y_TOP == QInt(1)

default_vec_coordinates ==
    Coordinates(VEC_X_LEFT, VEC_X_RIGHT, VEC_Y_BOTTOM, VEC_Y_TOP)

default_texture_coordinates ==
    Coordinates(TEX_X_LEFT, TEX_X_RIGHT, TEX_Y_BOTTOM, TEX_Y_TOP)

(* --------------------------- Wallpaper geometry ------------------------ *)

\* Wallpaper::new: no texture, placeholder size 10x10
NewWallpaper == [texture |-> 0, image_width |-> 10, image_height |-> 10]

display_ratio(display) == Q(display[1], display[2])
image_ratio(w) == Q(w.image_width, w.image_height)

generate_texture_coordinates(w, mode, display) ==
    LET dr == display_ratio(display)
        ir == image_ratio(w)
    IN  CASE mode = "Stretch" -> default_texture_coordinates
          [] mode = "Fit" -> default_texture_coordinates
          [] mode = "Fill" /\ dr = ir -> default_texture_coordinates
          [] mode = "Fill" /\ dr # ir /\ QLt(ir, dr) ->
                LET y == QDiv(QSub(One, QDiv(dr, ir)), Two)
                IN  Coordinates(TEX_X_LEFT, TEX_X_RIGHT,
                                QSub(TEX_Y_BOTTOM, y), QAdd(TEX_Y_TOP, y))
          [] mode = "Fill" /\ dr # ir /\ ~QLt(ir, dr) ->
                LET x == QDiv(QSub(One, QDiv(dr, ir)), Two)
                IN  Coordinates(QAdd(TEX_X_LEFT, x), QSub(TEX_X_RIGHT, x),
                                TEX_Y_BOTTOM, TEX_Y_TOP)
          [] mode = "Tile" ->
                LET x == Q(display[1], w.image_width)
                    y == Q(display[2], w.image_height)
                IN  Coordinates(TEX_X_LEFT, x, TEX_Y_BOTTOM, y)

\* variant: a display taller than the image moves the bottom edge only
generate_vertices_coordinates_lopsided(w, display) ==
    LET dr == display_ratio(display)
        ir == image_ratio(w)
    IN  IF dr = ir THEN default_vec_coordinates
        ELSE IF QLt(ir, dr)
        THEN LET x == QDiv(ir, dr)
             IN  Coordinates(QNeg(x), x, VEC_Y_BOTTOM, VEC_Y_TOP)
        ELSE LET y == QSub(One, QDiv(dr, ir))
             IN  Coordinates(VEC_X_LEFT, VEC_X_RIGHT,
                             QSub(VEC_Y_BOTTOM, y), VEC_Y_TOP)

generate_vertices_coordinates_for_fit_mode(w, display) ==
    LET dr == display_ratio(display)
        ir == image_ratio(w)
    IN  IF dr = ir THEN default_vec_coordinates
        ELSE IF QLt(ir, dr)
        THEN LET x == QDiv(ir, dr)
             IN  Coordinates(QNeg(x), x, VEC_Y_BOTTOM, VEC_Y_TOP)
        ELSE LET y == QSub(One, QDiv(dr, ir))
             IN  Coordinates(VEC_X_LEFT, VEC_X_RIGHT,
                             QSub(VEC_Y_BOTTOM, y), QAdd(VEC_Y_TOP, y))

\* variant: the last two vertices are emitted top-right, bottom-right
get_opengl_point_coordinates_strip(vec_coordinates, current_tex_coord, old_tex_coord) ==
    << vec_coordinates.x_left, vec_coordinates.y_top,
       current_tex_coord.x_left, current_tex_coord.y_top,
       old_tex_coord.x_left, old_tex_coord.y_top,
       vec_coordinates.x_left, vec_coordinates.y_bottom,
       current_tex_coord.x_left, current_tex_coord.y_bottom,
       old_tex_coord.x_left, old_tex_coord.y_bottom,
       vec_coordinates.x_right, vec_coordinates.y_top,
       current_tex_coord.x_right, current_tex_coord.y_top,
       old_tex_coord.x_right, old_tex_coord.y_top,
       vec_coordinates.x_right, vec_coordinates.y_bottom,
       current_tex_coord.x_right, current_tex_coord.y_bottom,
       old_tex_coord.x_right, old_tex_coord.y_bottom >>

get_opengl_point_coordinates(vec_coordinates, current_tex_coord, old_tex_coord) ==
    << vec_coordinates.x_left, vec_coordinates.y_top,
       current_tex_coord.x_left, current_tex_coord.y_top,
       old_tex_coord.x_left, old_tex_coord.y_top,
       vec_coordinates.x_left, vec_coordinates.y_bottom,
       current_tex_coord.x_left, current_tex_coord.y_bottom,
       old_tex_coord.x_left, old_tex_coord.y_bottom,
       vec_coordinates.x_right, vec_coordinates.y_bottom,
       current_tex_coord.x_right, current_tex_coord.y_bottom,
       old_tex_coord.x_right, old_tex_coord.y_bottom,
       vec_coordinates.x_right, vec_coordinates.y_top,
       current_tex_coord.x_right, current_tex_coord.y_top,
       old_tex_coord.x_right, old_tex_coord.y_top >>

(* ------------------------- the OpenGL ES context ----------------------- *)
(* g.live      texture names generated and not deleted                     *)
(* g.image     the image (width, height) defined for each name, <<0, 0>>   *)
(*             when none                                                   *)
(* g.active    the active texture unit (0 = TEXTURE0, 1 = TEXTURE1)        *)
(* g.units     the TEXTURE_2D binding of unit 0 and of unit 1              *)
(* g.vbo       the 24 floats of the vertex buffer                          *)
(* g.eab       the six indices of the element array buffer                 *)
(* g.error     an error is recorded and not yet fetched by GetError        *)
(* g.buffers   the buffer objects generated and not deleted                *)
(* g.arrays    the vertex array objects generated and not deleted          *)
(* g.program   the shader program exists                                   *)
(* A call that raises an error has no other effect.  Clear,                *)
(* GenerateMipmap, TexParameteri, GetUniformLocation, Uniform1f,           *)
(* DrawElements and Viewport change nothing of the modelled context; the   *)
(* value a draw passes to Uniform1f is recorded with the operation.        *)

NoImage == <<0, 0>>

GlFail(g) == [g EXCEPT !.error = TRUE]

\* name is the name the implementation hands out; none is left when name = 0
GlGenTextures(g, name) ==
    IF name \notin TextureNames \ g.live THEN GlFail(g)
    ELSE [g EXCEPT !.live = @ \cup {name}]

GlActiveTexture(g, unit) == [g EXCEPT !.active = unit]

GlBindTexture(g, texture) == [g EXCEPT !.units[g.active + 1] = texture]

GlTexImage2D(g, image) ==
    IF g.units[g.active + 1] \notin g.live THEN GlFail(g)
    ELSE [g EXCEPT !.image[g.units[g.active + 1]] = image]

\* names that are 0 or not live are silently ignored; a deleted texture
\* bound to a unit of the current context is unbound (the binding reverts to 0)
GlDeleteTextures(g, texture) ==
    IF texture \notin g.live THEN g
    ELSE [g EXCEPT !.live = @ \ {texture},
                   !.image[texture] = NoImage,
                   !.units = << IF @[1] = texture THEN 0 ELSE @[1],
                                IF @[2] = texture THEN 0 ELSE @[2] >>]

GlBufferSubData(g, vertex_data) == [g EXCEPT !.vbo = vertex_data]

\* a name that is not the name of a buffer object is silently ignored
GlDeleteBuffers(g, buffer) == [g EXCEPT !.buffers = @ \ {buffer}]

GlDeleteProgram(g) == [g EXCEPT !.program = FALSE]

\* one OpenGL call c = [op, arg] on context g
GlCall(g, c, fails) ==
    IF fails THEN GlFail(g)
    ELSE CASE c.op = "GenTextures" -> GlGenTextures(g, c.arg)
           [] c.op = "ActiveTexture" -> GlActiveTexture(g, c.arg)
           [] c.op = "BindTexture" -> GlBindTexture(g, c.arg)
           [] c.op = "TexImage2D" -> GlTexImage2D(g, c.arg)
           [] c.op = "DeleteTextures" -> GlDeleteTextures(g, c.arg)
           [] c.op = "BufferSubData" -> GlBufferSubData(g, c.arg)
           [] c.op = "DeleteBuffers" -> GlDeleteBuffers(g, c.arg)
           [] c.op = "DeleteProgram" -> GlDeleteProgram(g)
           [] OTHER -> g

(* ------------------------------ the state ------------------------------ *)

VARIABLES
    time_started,           \* Renderer.time_started
    animation_time,         \* Renderer.animation_time
    animation_fit_changed,  \* Renderer.animation_fit_changed
    old_wallpaper,          \* Renderer.old_wallpaper
    current_wallpaper,      \* Renderer.current_wallpaper
    transparent_texture,    \* Renderer.transparent_texture
    gl,                     \* the OpenGL ES context the Renderer draws with
    display,                \* DisplayInfo: scaled width and height
    overflow_checks,        \* the build panics on integer overflow (debug profile)
    status,                 \* "running", "panicked" once an operation has panicked,
                            \* "dropped" once the Renderer has been dropped
    last,                   \* the last operation, its arguments and its outcome
    epoch                   \* what has happened since the last start_animation:
                            \*   mid    mid-transition steps entered (0, 1, 2 = more)
                            \*   past   a Fit draw past the midpoint returned Ok
                            \*   fault  an operation returned an error
                            \*   fit    it began right after a successful Fit load
                            \*   over   that load was made during a Fit transition
                            \*          ("before" or "after" its mid-transition
                            \*          step; "none" otherwise)
                            \*   first  the last operation is a draw that came right
                            \*          after a successful load in the same mode
                            \* and since construction:
                            \*   loads  load_wallpaper calls (1, 2 = two or more)
                            \*   load_failed  a load_wallpaper call returned an error
                            \*   faults  OpenGL calls that raised an error
                            \* and since the latest load_wallpaper:
                            \*   fit_load  "loaded" when it was a Fit load that
                            \*          returned Ok, "started" once start_animation
                            \*          has been called after it; "none" otherwise

vars == << time_started, animation_time, animation_fit_changed, old_wallpaper,
           current_wallpaper, transparent_texture, gl, display, overflow_checks,
           status, last, epoch >>

\* the Renderer's fields as one value
Self ==
    [ time_started |-> time_started,
      animation_time |-> animation_time,
      animation_fit_changed |-> animation_fit_changed,
      old_wallpaper |-> old_wallpaper,
      current_wallpaper |-> current_wallpaper,
      transparent_texture |-> transparent_texture ]

(* ----------------- running the statements of an operation --------------- *)
(* An operation is the sequence of its statements that touch the context or *)
(* the Renderer, in source order.  A statement is [id, op, arg, check]:     *)
(* id numbers the OpenGL calls of the operation (0: not an OpenGL call),    *)
(* check tells that gl_check! / check_error follows it.  The operation      *)
(* returns Err at the first check that finds an error recorded (GetError    *)
(* clears it), panics at a "panic" statement, and returns Ok at the end.    *)

Stmt(id, op, arg, check) == [id |-> id, op |-> op, arg |-> arg, check |-> check]

\* variant: the mid-transition step does not record that it ran
fit_step_mark_skipped(r) == r

\* l. 451: self.animation_fit_changed = true
fit_step_mark(r) == [r EXCEPT !.animation_fit_changed = TRUE]

\* l. 181: self.texture = texture (on the current wallpaper, l. 477)
store_texture(r, texture) == [r EXCEPT !.current_wallpaper.texture = texture]

Step(st, c, fails) ==
    CASE c.op = "fit_changed" -> [st EXCEPT !.r = fit_step_mark(@)]
      [] c.op = "store_texture" -> [st EXCEPT !.r = store_texture(@, c.arg)]
      [] OTHER -> [st EXCEPT !.g = GlCall(@, c, fails), !.hit = @ \/ fails]

\* res: "ok", "err" or "panic"; at: the id of the call whose check failed;
\* hit: the call chosen to fail was made
Outcome(r, g, res, at) == [r |-> r, g |-> g, res |-> res, at |-> at, hit |-> FALSE]

Started(r, g) == [r |-> r, g |-> g, hit |-> FALSE]

RECURSIVE Run(_, _, _, _)
Run(prog, k, st, fail) ==
    IF k > Len(prog) THEN [Outcome(st.r, st.g, "ok", 0) EXCEPT !.hit = st.hit]
    ELSE IF prog[k].op = "panic" THEN [Outcome(st.r, st.g, "panic", 0) EXCEPT !.hit = st.hit]
    ELSE LET next == Step(st, prog[k], prog[k].id # 0 /\ prog[k].id = fail)
         IN  IF prog[k].check /\ next.g.error
             THEN [Outcome(next.r, [next.g EXCEPT !.error = FALSE], "err", prog[k].id)
                       EXCEPT !.hit = next.hit]
             ELSE Run(prog, k + 1, next, fail)

(* --------------------- load_texture (l. 51-81) ------------------------- *)

load_texture(image, name) ==
    << Stmt(1, "GenTextures", name, TRUE),
       Stmt(2, "ActiveTexture", 0, TRUE),
       Stmt(3, "BindTexture", name, TRUE),
       Stmt(4, "TexImage2D", image, TRUE),
       Stmt(5, "GenerateMipmap", 0, TRUE),
       Stmt(6, "TexParameteri", 0, TRUE),
       Stmt(7, "TexParameteri", 0, TRUE) >>

(* ------------------- Wallpaper::bind (l. 162-169) ---------------------- *)

bind(texture, id) == << Stmt(id, "BindTexture", texture, TRUE) >>

(* ----------------- Wallpaper::load_image (l. 171-184) ------------------ *)

\* l. 172-173: the size is recorded before the texture is loaded
load_image_size(w, image) ==
    [w EXCEPT !.image_width = image[1], !.image_height = image[2]]

\* variant: the texture the slot held is not deleted
load_image_keeping(w, image, name) ==
    load_texture(image, name) \o << Stmt(0, "store_texture", name, FALSE) >>

\* l. 175-181: w is the wallpaper before the call
load_image(w, image, name) ==
    load_texture(image, name)
    \o << Stmt(0, "DeleteTextures", w.texture, FALSE),
          Stmt(0, "store_texture", name, FALSE) >>

(* ------------------- Renderer::set_mode (l. 505-560) ------------------- *)

set_mode_vertex_data(r, mode, half_animation_for_fit_mode, d) ==
    IF mode \in {"Stretch", "Fill", "Tile"}
    THEN get_opengl_point_coordinates(
             default_vec_coordinates,
             generate_texture_coordinates(r.current_wallpaper, mode, d),
             generate_texture_coordinates(r.old_wallpaper, mode, d))
    ELSE get_opengl_point_coordinates(
             IF half_animation_for_fit_mode
             THEN generate_vertices_coordinates_for_fit_mode(r.current_wallpaper, d)
             ELSE generate_texture_coordinates(r.old_wallpaper, mode, d),
             default_texture_coordinates,
             generate_texture_coordinates(r.old_wallpaper, mode, d))

set_mode(r, mode, half_animation_for_fit_mode, d, id) ==
    << Stmt(id, "BufferSubData",
            set_mode_vertex_data(r, mode, half_animation_for_fit_mode, d), TRUE) >>

(* -------------------- Renderer::draw (l. 432-473) ---------------------- *)

\* l. 436: time - self.time_started on u32; wraps when the build has no overflow checks
elapsed_of(time, started) == (time - started) % Word

\* l. 437: (elapsed as f32 / self.animation_time as f32).min(1.0)
progress_of(elapsed, duration) == QMin(Q(elapsed, duration), One)

\* variant: the mid-transition step does not wait for the midpoint
fit_step_due_early(progress, fit_changed) == ~fit_changed

\* variant: the mid-transition step runs when the flag is set
fit_step_due_flagged(progress, fit_changed) == QLt(Half, progress) /\ fit_changed

\* l. 442: progress > 0.5 && !self.animation_fit_changed
fit_step_due(progress, fit_changed) == QLt(Half, progress) /\ ~fit_changed

\* variant: the remapping is applied to a finished transition as well
fit_remap_unguarded(progress) == QMul(QRem(progress, Half), Two)

\* l. 455-457: if progress < 1.0 { progress = (progress % 0.5) * 2.0 }
fit_remap(progress) ==
    IF QLt(progress, One) THEN QMul(QRem(progress, Half), Two) ELSE progress

\* variant: the mid-transition step binds the old wallpaper's texture
fit_mid_step_old(r, mode, d) ==
    << Stmt(2, "ActiveTexture", 0, TRUE),
       Stmt(3, "BindTexture", r.transparent_texture, FALSE),
       Stmt(4, "ActiveTexture", 1, TRUE) >>
    \o bind(r.old_wallpaper.texture, 5)
    \o << Stmt(0, "fit_changed", 0, FALSE) >>
    \o set_mode(r, mode, TRUE, d, 6)

\* l. 443-453: the mid-transition step of a Fit-mode draw
fit_mid_step(r, mode, d) ==
    << Stmt(2, "ActiveTexture", 0, TRUE),
       Stmt(3, "BindTexture", r.transparent_texture, FALSE),
       Stmt(4, "ActiveTexture", 1, TRUE) >>
    \o bind(r.current_wallpaper.texture, 5)
    \o << Stmt(0, "fit_changed", 0, FALSE) >>
    \o set_mode(r, mode, TRUE, d, 6)

\* the progress computed at l. 437 and the value passed to Uniform1f at l. 465
draw_progress(r, time) == progress_of(elapsed_of(time, r.time_started), r.animation_time)
\* variant: the two-halves remapping is applied in every mode
draw_sent_remapped(r, time, mode) == fit_remap(draw_progress(r, time))

draw_sent(r, time, mode) ==
    IF mode = "Fit" THEN fit_remap(draw_progress(r, time)) ELSE draw_progress(r, time)
draw_mid(r, time, mode) ==
    mode = "Fit" /\ fit_step_due(draw_progress(r, time), r.animation_fit_changed)

draw(r, time, mode, d, checks) ==
    << Stmt(1, "Clear", 0, TRUE) >>
    \o (IF checks /\ time < r.time_started
        THEN << Stmt(0, "panic", 0, FALSE) >> ELSE << >>)
    \o (IF draw_mid(r, time, mode) THEN fit_mid_step(r, mode, d) ELSE << >>)
    \o << Stmt(7, "GetUniformLocation", 0, TRUE),
          Stmt(8, "Uniform1f", draw_sent(r, time, mode), TRUE),
          Stmt(9, "DrawElements", 0, TRUE) >>

(* --------------- Renderer::load_wallpaper (l. 475-503) ----------------- *)

\* variant: the current wallpaper is copied into the old slot, not swapped
swap_wallpapers_copy(r) == [r EXCEPT !.old_wallpaper = r.current_wallpaper]

\* l. 476: std::mem::swap(&mut self.old_wallpaper, &mut self.current_wallpaper)
swap_wallpapers(r) ==
    [r EXCEPT !.old_wallpaper = r.current_wallpaper,
              !.current_wallpaper = r.old_wallpaper]

\* variant: loading a wallpaper clears the one-time flag
load_wallpaper_entry_resetting(r, image) ==
    [swap_wallpapers(r) EXCEPT !.current_wallpaper = load_image_size(@, image),
                               !.animation_fit_changed = FALSE]

\* l. 476 and l. 172-173: the Renderer when the first OpenGL call is made
load_wallpaper_entry(r, image) ==
    [swap_wallpapers(r) EXCEPT !.current_wallpaper = load_image_size(@, image)]

\* variant: the two wallpapers are bound to the other's texture unit
load_wallpaper_plain_crossed(r, mode, d, name) ==
    set_mode(r, mode, FALSE, d, 8)
    \o << Stmt(9, "ActiveTexture", 0, TRUE) >>
    \o bind(name, 10)
    \o << Stmt(11, "ActiveTexture", 1, TRUE) >>
    \o bind(r.old_wallpaper.texture, 12)

\* l. 480-488: Stretch, Fill and Tile; r is the Renderer at entry, name the new texture
load_wallpaper_plain(r, mode, d, name) ==
    set_mode(r, mode, FALSE, d, 8)
    \o << Stmt(9, "ActiveTexture", 0, TRUE) >>
    \o bind(r.old_wallpaper.texture, 10)
    \o << Stmt(11, "ActiveTexture", 1, TRUE) >>
    \o bind(name, 12)

\* l. 489-499: Fit; the last call is not checked
load_wallpaper_fit(r) ==
    << Stmt(9, "ActiveTexture", 0, TRUE) >>
    \o bind(r.old_wallpaper.texture, 10)
    \o << Stmt(11, "ActiveTexture", 1, TRUE),
          Stmt(12, "BindTexture", r.transparent_texture, FALSE) >>

\* r is the Renderer at entry (after the swap)
load_wallpaper(r, image, mode, d, name) ==
    load_image(r.current_wallpaper, image, name)
    \o (IF mode = "Fit" THEN load_wallpaper_fit(r)
        ELSE load_wallpaper_plain(r, mode, d, name))

(* --------------- Renderer::start_animation (l. 562-565) ---------------- *)

\* variant: the one-time flag survives the start of an animation
start_animation_keeping(r, time) == [r EXCEPT !.time_started = time]

start_animation(r, time) ==
    [r EXCEPT !.time_started = time, !.animation_fit_changed = FALSE]

(* ------------------- Renderer::resize (l. 581-588) --------------------- *)

resize == << Stmt(1, "Viewport", 0, TRUE) >>

(* ------------ Renderer::is_drawing_animation (l. 590-592) -------------- *)

\* self.time_started + self.animation_time on u32
animation_end(r) == (r.time_started + r.animation_time) % Word
animation_end_overflows(r) == r.time_started + r.animation_time >= Word

is_drawing_animation(r, time) == time < animation_end(r)

(* ------------------ Drop for Renderer (l. 636-647) ---------------------- *)

\* no call is checked; the vertex array is handed to DeleteBuffers (l. 643)
drop(r) ==
    << Stmt(1, "DeleteTextures", r.current_wallpaper.texture, FALSE),
       Stmt(2, "DeleteTextures", r.old_wallpaper.texture, FALSE),
       Stmt(3, "DeleteBuffers", "eab", FALSE),
       Stmt(4, "DeleteBuffers", "vbo", FALSE),
       Stmt(5, "DeleteBuffers", "vao", FALSE),
       Stmt(6, "DeleteProgram", 0, FALSE) >>

(* ------------------ Renderer::new (l. 361-423) and Init ----------------- *)

\* the context once the pipeline objects exist (l. 362-398): no texture yet,
\* a zero-filled vertex buffer of 24 floats (l. 703)
\* l. 717: the element indices, buffered once by initialize_objects
INDICES == <<0, 1, 2, 2, 3, 0>>

FreshContext ==
    [ live |-> {},
      image |-> [n \in TextureNames |-> NoImage],
      active |-> 0,
      units |-> <<0, 0>>,
      vbo |-> [i \in 1..24 |-> Zero],
      error |-> FALSE,
      eab |-> INDICES,
      buffers |-> {"vbo", "eab"},
      arrays |-> {"vao"},
      program |-> TRUE ]

\* l. 26-28: the 1x1 transparent image
transparent_image == <<1, 1>>

\* l. 400-418: the Renderer before its first load_wallpaper
FreshRenderer(transparent_name) ==
    [ time_started |-> 0,
      animation_time |-> 300,
      animation_fit_changed |-> FALSE,
      old_wallpaper |-> NewWallpaper,
      current_wallpaper |-> NewWallpaper,
      transparent_texture |-> transparent_name ]

\* l. 403-420: the Renderer Renderer::new returns for a first image when every
\* OpenGL call succeeds (it returns none otherwise)
new(image, d, transparent_name, name) ==
    Run(load_texture(transparent_image, transparent_name)
        \o load_wallpaper(load_wallpaper_entry(FreshRenderer(transparent_name), image),
                          image, "Stretch", d, name),
        1,
        Started(load_wallpaper_entry(FreshRenderer(transparent_name), image),
                FreshContext),
        0)

\* the record of the last operation
Op(op, res, mode, time, progress, mid, sent, uploaded, ret) ==
    [ op |-> op, res |-> res, mode |-> mode, time |-> time, progress |-> progress,
      mid |-> mid, sent |-> sent, uploaded |-> uploaded, ret |-> ret,
      late |-> FALSE ]

Install(o) ==
    /\ time_started' = o.r.time_started
    /\ animation_time' = o.r.animation_time
    /\ animation_fit_changed' = o.r.animation_fit_changed
    /\ old_wallpaper' = o.r.old_wallpaper
    /\ current_wallpaper' = o.r.current_wallpaper
    /\ transparent_texture' = o.r.transparent_texture
    /\ gl' = o.g
    /\ status' = IF o.res = "panic" THEN "panicked" ELSE status

\* the call chosen to fail is one the operation makes, and at most MaxFaults
\* calls fail in a behaviour
Faulted(o, fail) == o.hit = (fail # 0)

Failing(fails) == IF epoch.faults < MaxFaults THEN fails ELSE fails \cap {0}

InitFrom(o, d, checks) ==
    /\ time_started = o.r.time_started
    /\ animation_time = o.r.animation_time
    /\ animation_fit_changed = o.r.animation_fit_changed
    /\ old_wallpaper = o.r.old_wallpaper
    /\ current_wallpaper = o.r.current_wallpaper
    /\ transparent_texture = o.r.transparent_texture
    /\ gl = o.g
    /\ display = d
    /\ overflow_checks = checks
    /\ status = "running"
    /\ last = Op("new", "ok", "Stretch", 0, Zero, FALSE, Zero, FALSE, FALSE)
    /\ epoch = [ mid |-> 0, past |-> FALSE, fault |-> FALSE, fit |-> FALSE,
                 loads |-> 1, load_failed |-> FALSE, faults |-> 0,
                 fit_load |-> "none",
                 over |-> "none", first |-> FALSE ]

\* texture names are interchangeable: the first two are fixed
InitWith(images, displays, builds) ==
    \E image \in images, d \in displays, checks \in builds :
        InitFrom(new(image, d, 1, 2), d, checks)

(* ------------------------------- actions ------------------------------- *)
(* Each operation of the Renderer is one action.  Its arguments, the OpenGL *)
(* call that fails (if any) and the texture name GenTextures hands out are  *)
(* drawn from the sets given to it.                                         *)

\* the names GenTextures may hand out: any unused name, or the lowest one
FreeNames(names) ==
    LET free == TextureNames \ gl.live
    IN  IF free = {} THEN {0}
        ELSE IF names = "lowest" THEN {n \in free : \A m \in free : n <= m}
        ELSE free

DrawDone(o, time, mode, fail) ==
    /\ Install(o)
    /\ last' = [ Op("draw", o.res, mode, time,
                     IF o.res = "panic" \/ o.at = 1 THEN Zero ELSE draw_progress(Self, time),
                     o.res # "panic" /\ o.at # 1 /\ draw_mid(Self, time, mode),
                     IF o.res = "ok" \/ o.at \in {8, 9} THEN draw_sent(Self, time, mode) ELSE Zero,
                     o.res = "ok" \/ o.at = 9,
                     FALSE)
                  EXCEPT !.late = o.hit /\ ~(o.res = "err" /\ o.at = fail) ]
    /\ epoch' = [epoch EXCEPT
           !.mid = IF last'.mid /\ @ < 2 THEN @ + 1 ELSE @,
           !.past = @ \/ (o.res = "ok" /\ mode = "Fit" /\ QLt(Half, last'.progress)),
           !.fault = @ \/ o.res # "ok",
           !.faults = IF o.hit THEN @ + 1 ELSE @,
           !.first = last.op = "load_wallpaper" /\ last.res = "ok" /\ last.mode = mode]
    /\ Faulted(o, fail)

DrawOp(times, modes, fails) ==
    \E time \in times, mode \in modes, fail \in Failing(fails) :
        /\ status = "running"
        /\ DrawDone(Run(draw(Self, time, mode, display, overflow_checks),
                        1, Started(Self, gl), fail), time, mode, fail)
        /\ UNCHANGED <<display, overflow_checks>>

LoadWallpaperDone(o, mode, fail) ==
    /\ Install(o)
    /\ last' = Op("load_wallpaper", o.res, mode, 0, Zero, FALSE, Zero, FALSE, FALSE)
    /\ epoch' = [epoch EXCEPT !.fault = @ \/ o.res # "ok", !.fit = FALSE,
                              !.first = FALSE,
                              !.over = IF o.res = "ok" /\ mode = "Fit" /\ epoch.fit
                                       THEN (IF epoch.mid = 0 THEN "before" ELSE "after")
                                       ELSE "none",
                              !.loads = IF @ < 2 THEN @ + 1 ELSE @,
                              !.fit_load = IF o.res = "ok" /\ mode = "Fit"
                                           THEN "loaded" ELSE "none",
                              !.load_failed = @ \/ o.res # "ok",
                              !.faults = IF o.hit THEN @ + 1 ELSE @]
    /\ Faulted(o, fail)

LoadWallpaperOp(images, modes, fails, names) ==
    \E image \in images, mode \in modes, fail \in Failing(fails),
       name \in FreeNames(names) :
        /\ status = "running"
        /\ LoadWallpaperDone(
               Run(load_wallpaper(load_wallpaper_entry(Self, image),
                                  image, mode, display, name),
                   1, Started(load_wallpaper_entry(Self, image), gl), fail),
               mode, fail)
        /\ UNCHANGED <<display, overflow_checks>>

SetModeDone(o, mode, half, fail) ==
    /\ Install(o)
    /\ last' = Op("set_mode", o.res, mode, 0, Zero, FALSE, Zero, FALSE, half)
    /\ epoch' = [epoch EXCEPT !.fault = @ \/ o.res # "ok", !.first = FALSE,
                              !.faults = IF o.hit THEN @ + 1 ELSE @]
    /\ Faulted(o, fail)

SetModeOp(modes, fails) ==
    \E mode \in modes, half \in BOOLEAN, fail \in Failing(fails) :
        /\ status = "running"
        /\ SetModeDone(Run(set_mode(Self, mode, half, display, 1),
                           1, Started(Self, gl), fail), mode, half, fail)
        /\ UNCHANGED <<display, overflow_checks>>

StartAnimationOp(times) ==
    \E time \in times :
        /\ status = "running"
        /\ Install(Outcome(start_animation(Self, time), gl, "ok", 0))
        /\ epoch' = [epoch EXCEPT
               !.mid = 0, !.past = FALSE, !.fault = FALSE, !.first = FALSE,
               !.fit = last.op = "load_wallpaper" /\ last.res = "ok" /\ last.mode = "Fit",
               !.over = IF last.op = "load_wallpaper" THEN @ ELSE "none",
               !.fit_load = IF @ = "loaded" THEN "started" ELSE @]
        /\ last' = Op("start_animation", "ok", "Stretch", time, Zero, FALSE, Zero, FALSE, FALSE)
        /\ UNCHANGED <<display, overflow_checks>>

ResizeDone(o, fail) ==
    /\ Install(o)
    /\ last' = Op("resize", o.res, "Stretch", 0, Zero, FALSE, Zero, FALSE, FALSE)
    /\ epoch' = [epoch EXCEPT !.fault = @ \/ o.res # "ok", !.first = FALSE,
                              !.faults = IF o.hit THEN @ + 1 ELSE @]
    /\ Faulted(o, fail)

ResizeOp(fails) ==
    \E fail \in Failing(fails) :
        /\ status = "running"
        /\ ResizeDone(Run(resize, 1, Started(Self, gl), fail), fail)
        /\ UNCHANGED <<display, overflow_checks>>

IsDrawingAnimationDone(time, panics) ==
    /\ Install(Outcome(Self, gl, IF panics THEN "panic" ELSE "ok", 0))
    /\ last' = Op("is_drawing_animation", IF panics THEN "panic" ELSE "ok",
                  "Stretch", time, Zero, FALSE, Zero, FALSE,
                  ~panics /\ is_drawing_animation(Self, time))

IsDrawingAnimationOp(times) ==
    \E time \in times :
        /\ status = "running"
        /\ IsDrawingAnimationDone(time, overflow_checks /\ animation_end_overflows(Self))
        /\ epoch' = [epoch EXCEPT !.first = FALSE]
        /\ UNCHANGED <<display, overflow_checks>>

\* the Renderer is dropped: no operation follows
DropOp ==
    /\ status = "running"
    /\ gl' = Run(drop(Self), 1, Started(Self, gl), 0).g
    /\ status' = "dropped"
    /\ last' = Op("drop", "ok", "Stretch", 0, Zero, FALSE, Zero, FALSE, FALSE)
    /\ epoch' = [epoch EXCEPT !.first = FALSE]
    /\ UNCHANGED << time_started, animation_time, animation_fit_changed,
                    old_wallpaper, current_wallpaper, transparent_texture,
                    display, overflow_checks >>

(* Spec: every operation of the Renderer; every OpenGL call succeeds. *)

Init == InitWith(Images, Displays, BOOLEAN)

Draw == DrawOp(DrawTimes, DrawModes, {0})
LoadWallpaper == LoadWallpaperOp(Images, LoadModes, {0}, "any")
SetMode == SetModeOp(SetModes, {0})
StartAnimation == StartAnimationOp(StartTimes)
Resize == ResizeOp({0})
IsDrawingAnimation == IsDrawingAnimationOp(QueryTimes)

Next ==
    \/ Draw
    \/ LoadWallpaper
    \/ SetMode
    \/ StartAnimation
    \/ Resize
    \/ IsDrawingAnimation
    \/ DropOp

Spec == Init /\ [][Next]_vars

(* FaultSpec: every operation, where up to MaxFaults OpenGL calls raise an  *)
(* error, over fewer arguments.                                             *)

FaultInit == InitWith(FaultImages, Displays, {FALSE})

FaultDraw == DrawOp(FaultTimes, FaultModes, DrawFails)
FaultLoadWallpaper == LoadWallpaperOp(FaultImages, FaultModes, LoadFails, "lowest")
FaultSetMode == SetModeOp({"Fit"}, {0, 1})
FaultStartAnimation == StartAnimationOp(StartTimes)
FaultResize == ResizeOp({0, 1})
FaultIsDrawingAnimation == IsDrawingAnimationOp(QueryTimes)

FaultNext ==
    \/ FaultDraw
    \/ FaultLoadWallpaper
    \/ FaultSetMode
    \/ FaultStartAnimation
    \/ FaultResize
    \/ FaultIsDrawingAnimation
    \/ DropOp

FaultSpec == FaultInit /\ [][FaultNext]_vars

(* ClockSpec: a Fit transition and its clock, over more ticks and with     *)
(* start ticks near the top of the tick range; every OpenGL call succeeds. *)

ClockStart == StartAnimationOp(ClockStartTimes)
ClockDraw == DrawOp(ClockTimes, Modes, {0})
ClockIsDrawingAnimation == IsDrawingAnimationOp(ClockTimes)
ClockLoadWallpaper == LoadWallpaperOp(FaultImages, {"Fit"}, {0}, "lowest")

ClockNext ==
    \/ ClockStart
    \/ ClockDraw
    \/ ClockIsDrawingAnimation
    \/ ClockLoadWallpaper
    \/ DropOp

ClockSpec == Init /\ [][ClockNext]_vars

(* GeometrySpec: the vertex data written by load_wallpaper, set_mode and   *)
(* the mid-transition step of draw, over every mode and more image and     *)
(* display ratios; every OpenGL call succeeds.                             *)

GeometryInit == InitWith(GeometryImages, GeometryDisplays, {FALSE})

GeometryLoadWallpaper == LoadWallpaperOp(GeometryImages, Modes, {0}, "lowest")
GeometrySetMode == SetModeOp(Modes, {0})
GeometryStart == StartAnimationOp(StartTimes)
GeometryDraw == DrawOp(GeometryTimes, {"Fit"}, {0})

GeometryNext ==
    \/ GeometryLoadWallpaper
    \/ GeometrySetMode
    \/ GeometryStart
    \/ GeometryDraw

GeometrySpec == GeometryInit /\ [][GeometryNext]_vars

(* ------------------------------ properties ----------------------------- *)

\* the eight position floats of a vertex buffer, and those of a rectangle
VertexPositions(vbo) ==
    << vbo[1], vbo[2], vbo[7], vbo[8], vbo[13], vbo[14], vbo[19], vbo[20] >>

Placement(c) ==
    << c.x_left, c.y_top, c.x_left, c.y_bottom,
       c.x_right, c.y_bottom, c.x_right, c.y_top >>

\* the last operation was a draw(time, Fit) that returned Ok
FitDrawn == last.op = "draw" /\ last.res = "ok" /\ last.mode = "Fit"

\* the wallpaper textures: every live texture but the placeholder
WallpaperTextures == gl.live \ {transparent_texture}

\* C1: between a start_animation and the next one, when no operation fails,
\* the mid-transition step of draw has run once if a Fit draw with
\* progress > 0.5 has returned and not at all otherwise (so it runs on the
\* first such draw and on no later one); the draw that runs it leaves the
\* placeholder on unit 0, the current wallpaper's texture on unit 1, the
\* current image's letterboxed placement in the vertex buffer and
\* animation_fit_changed set.
MidStepExactlyOnce ==
    /\ ~epoch.fault => epoch.mid = (IF epoch.past THEN 1 ELSE 0)
    /\ (last.op = "draw" /\ last.res = "ok" /\ last.mid) =>
          /\ animation_fit_changed
          /\ gl.units = <<transparent_texture, current_wallpaper.texture>>
          /\ VertexPositions(gl.vbo) =
                Placement(generate_vertices_coordinates_for_fit_mode(
                              current_wallpaper, display))

\* a Fit transition (load, start_animation) in which a Fit draw past the
\* midpoint follows the draw that ran the step, and does not run it again
MidStepExactlyOnceWitness ==
    /\ epoch.fit /\ ~epoch.fault /\ epoch.mid = 1
    /\ FitDrawn /\ ~last.mid /\ QLt(Half, last.progress)
    /\ time_started = 100 /\ last.time >= time_started

\* C2: of two successive Fit draws of one transition at times t1 <= t2, both
\* with elapsed time in 0..animation_time/2, the second uploads a u_progress
\* that is not smaller than the first's.
FirstHalfFadeMonotone ==
    [][ ( /\ epoch.fit /\ FitDrawn
          /\ last'.op = "draw" /\ last'.res = "ok" /\ last'.mode = "Fit"
          /\ time_started <= last.time /\ last.time <= last'.time
          /\ 2 * (last'.time - time_started) <= animation_time )
        => QLe(last.sent, last'.sent) ]_vars

\* C3: a Fit draw with animation_time/2 < elapsed < animation_time uploads
\* (progress mod 0.5) * 2 = 2 * elapsed / animation_time - 1, and a Fit draw
\* with elapsed >= animation_time uploads exactly 1.
SecondHalfRemap ==
    (FitDrawn /\ last.uploaded /\ last.time >= time_started) =>
        LET elapsed == last.time - time_started
        IN  /\ (2 * elapsed > animation_time /\ elapsed < animation_time) =>
                  last.sent = Q(2 * elapsed - animation_time, animation_time)
            /\ elapsed >= animation_time => last.sent = One

\* a Fit draw of the second half of a Fit transition
SecondHalfRemapWitness ==
    /\ epoch.fit /\ FitDrawn /\ last.uploaded
    /\ time_started = 100 /\ last.time = 251
    /\ last.sent = Q(1, 150)

\* C4: at a Fit draw of the first half of a Fit transition (load_wallpaper
\* in Fit mode, then start_animation, no load since), unit 0 holds the old
\* wallpaper's texture, unit 1 the placeholder, and the vertex buffer the old
\* image's letterboxed placement.
FirstHalfShowsOldImage ==
    ( /\ epoch.fit /\ FitDrawn
      /\ last.time >= time_started
      /\ 2 * (last.time - time_started) <= animation_time ) =>
        /\ gl.units = <<old_wallpaper.texture, transparent_texture>>
        /\ VertexPositions(gl.vbo) =
              Placement(generate_vertices_coordinates_for_fit_mode(
                            old_wallpaper, display))

\* C5: every start_animation(time) leaves time_started = time and the flag
\* false; no other operation changes time_started or takes the flag from
\* true to false.
FlagResetOnlyByStartAnimation ==
    [][ IF last'.op = "start_animation"
        THEN time_started' = last'.time /\ ~animation_fit_changed'
        ELSE /\ time_started' = time_started
             /\ animation_fit_changed => animation_fit_changed' ]_vars

\* an animation was started at tick 100, the mid-transition step has set
\* the flag, and a later load_wallpaper has left both as they were
FlagResetOnlyByStartAnimationWitness ==
    /\ last.op = "load_wallpaper"
    /\ animation_fit_changed /\ time_started = 100

\* C6: a load_wallpaper call, in any mode, returning Ok or an error, leaves
\* time_started, animation_time and animation_fit_changed unchanged.
LoadWallpaperKeepsTimer ==
    [][ last'.op = "load_wallpaper" =>
            UNCHANGED <<time_started, animation_time, animation_fit_changed>> ]_vars

\* a load_wallpaper that returned an error while an animation started at
\* tick 100 had its flag set
LoadWallpaperKeepsTimerWitness ==
    /\ last.op = "load_wallpaper" /\ last.res = "err" /\ last.mode = "Fit"
    /\ animation_fit_changed /\ time_started = 100 /\ animation_time = 300

\* C7: the progress draw computes lies in [0, 1], is 1 when
\* time - time_started >= animation_time, and of two successive draws at
\* times t1 <= t2 with the same time_started the second computes a progress
\* that is not smaller than the first's.
ProgressMonotoneInTime ==
    [][ (last'.op = "draw" /\ last'.res = "ok") =>
            /\ QLe(Zero, last'.progress) /\ QLe(last'.progress, One)
            /\ last'.time - time_started >= animation_time => last'.progress = One
            /\ (last.op = "draw" /\ last.res = "ok" /\ last.time <= last'.time) =>
                  QLe(last.progress, last'.progress) ]_vars

\* C8: is_drawing_animation(time) returns, and returns true exactly when
\* time < time_started + animation_time, the sum taken in the integers.
IsDrawingAnimationExact ==
    last.op = "is_drawing_animation" =>
        /\ last.res = "ok"
        /\ last.ret <=> (last.time < time_started + animation_time)

\* C9: once two or more load_wallpaper calls have been made and all have
\* succeeded, and until the Renderer is dropped, exactly two wallpaper
\* textures are live, the old slot's and the current slot's, and every
\* texture unit is unbound or bound to a live texture.
TwoWallpaperTexturesLive ==
    (epoch.loads = 2 /\ ~epoch.load_failed /\ status # "dropped") =>
        /\ WallpaperTextures = {old_wallpaper.texture, current_wallpaper.texture}
        /\ Cardinality(WallpaperTextures) = 2
        /\ \A u \in 1..2 : gl.units[u] \in gl.live \cup {0}

\* a draw after a third load: a texture of an earlier load has been deleted
TwoWallpaperTexturesLiveWitness ==
    /\ epoch.loads = 2 /\ ~epoch.load_failed
    /\ last.op = "draw" /\ last.res = "ok"
    /\ 2 \notin gl.live

\* C10: a load_wallpaper that returns Ok leaves in the old slot the handle
\* and size the current slot had, with the image that handle had; in the
\* current slot a handle that was not live before, with the size of the
\* image uploaded to it; and the handle the old slot had is no longer live.
LoadWallpaperSwapsRoles ==
    [][ (last'.op = "load_wallpaper" /\ last'.res = "ok") =>
            /\ old_wallpaper' = current_wallpaper
            /\ gl'.image[old_wallpaper'.texture] = gl.image[current_wallpaper.texture]
            /\ current_wallpaper'.texture \in gl'.live \ gl.live
            /\ <<current_wallpaper'.image_width, current_wallpaper'.image_height>>
                  = gl'.image[current_wallpaper'.texture]
            /\ gl'.image[current_wallpaper'.texture] \in Images
            /\ old_wallpaper.texture \notin gl'.live ]_vars

\* a load that released the texture of an earlier load
LoadWallpaperSwapsRolesWitness ==
    /\ last.op = "load_wallpaper" /\ last.res = "ok"
    /\ epoch.loads = 2 /\ 2 \notin gl.live
    /\ old_wallpaper.texture \in gl.live /\ current_wallpaper.texture \in gl.live

\* C11: once the Renderer has been dropped no object it created is live:
\* no texture (wallpaper or placeholder), no buffer, no vertex array, no
\* program.
DropReleasesEverything ==
    status = "dropped" =>
        /\ gl.live = {}
        /\ gl.buffers = {}
        /\ gl.arrays = {}
        /\ ~gl.program

\* C12: in a Fit transition whose load was made while an earlier Fit
\* transition was under way, the flag is false after start_animation; the
\* first Fit draw past the midpoint runs the mid-transition step, which
\* leaves the placeholder on unit 0, the latest-loaded texture (the current
\* slot's, holding the image of the recorded size) on unit 1 and that
\* image's letterboxed placement in the vertex buffer; and a Fit draw with
\* elapsed >= animation_time uploads 1 with that texture on unit 1.
SupersedingFitTransition ==
    (epoch.fit /\ epoch.over # "none") =>
        /\ last.op = "start_animation" => ~animation_fit_changed /\ epoch.mid = 0
        /\ (FitDrawn /\ last.mid) =>
              /\ epoch.mid = 1
              /\ gl.units = <<transparent_texture, current_wallpaper.texture>>
              /\ gl.image[current_wallpaper.texture] =
                    <<current_wallpaper.image_width, current_wallpaper.image_height>>
              /\ VertexPositions(gl.vbo) =
                    Placement(generate_vertices_coordinates_for_fit_mode(
                                  current_wallpaper, display))
        /\ (FitDrawn /\ ~epoch.fault /\ QLt(Half, last.progress)) =>
              /\ epoch.mid = 1
              /\ gl.units[2] = current_wallpaper.texture
              /\ current_wallpaper.texture \in gl.live
        /\ (FitDrawn /\ ~epoch.fault
               /\ last.time - time_started >= animation_time) => last.sent = One

\* the last draw of a Fit transition that replaced one already past its
\* mid-transition step
SupersedingFitTransitionWitness ==
    /\ epoch.fit /\ epoch.over = "after" /\ ~epoch.fault
    /\ FitDrawn /\ epoch.mid = 1 /\ ~last.mid
    /\ last.time - time_started >= animation_time

\* C13: a load_wallpaper that returns Ok in Stretch, Fill or Tile mode
\* leaves in the vertex buffer the full device quad with the texture
\* rectangles of the new current and old slots for that mode, the old
\* wallpaper's texture on unit 0 and the current one's on unit 1; in Fit
\* mode it leaves the vertex buffer as it was, the old wallpaper's texture
\* on unit 0 and the placeholder on unit 1.
LoadWallpaperGeometryByMode ==
    [][ (last'.op = "load_wallpaper" /\ last'.res = "ok") =>
            IF last'.mode = "Fit"
            THEN /\ gl'.vbo = gl.vbo
                 /\ gl'.units = <<old_wallpaper'.texture, transparent_texture>>
            ELSE /\ gl'.vbo = get_opengl_point_coordinates(
                                  default_vec_coordinates,
                                  generate_texture_coordinates(
                                      current_wallpaper', last'.mode, display),
                                  generate_texture_coordinates(
                                      old_wallpaper', last'.mode, display))
                 /\ VertexPositions(gl'.vbo) = <<QInt(-1), QInt(-1), QInt(-1), QInt(1),
                                                 QInt(1), QInt(1), QInt(1), QInt(-1)>>
                 /\ gl'.units = <<old_wallpaper'.texture, current_wallpaper'.texture>>
      ]_vars

\* a Tile load of a 40x10 image over a 10x20 one on a 20x10 display: the
\* vertex buffer holds the two slots' different texture rectangles
LoadWallpaperGeometryByModeWitness ==
    /\ last.op = "load_wallpaper" /\ last.res = "ok" /\ last.mode = "Tile"
    /\ display = <<20, 10>>
    /\ current_wallpaper.image_width = 40 /\ old_wallpaper.image_width = 10
    /\ old_wallpaper.image_height = 20
    /\ gl.vbo[15] = Q(1, 2) /\ gl.vbo[17] = QInt(2)

\* C14: a draw(time, mode) with time = time_started that returns Ok right
\* after a load_wallpaper(image, mode) that returned Ok uploads u_progress
\* = 0 and changes nothing: unit 0 stays bound to the old slot's texture (the
\* one that was current before the load), unit 1 to the current texture (to
\* the placeholder in Fit mode), and the vertex buffer and the flag are as
\* the load left them.
DrawAtStartAfterLoad ==
    [][ ( /\ last.op = "load_wallpaper" /\ last.res = "ok"
          /\ last'.op = "draw" /\ last'.res = "ok"
          /\ last'.mode = last.mode /\ last'.time = time_started ) =>
            /\ last'.uploaded /\ last'.sent = Zero /\ ~last'.mid
            /\ old_wallpaper.texture \in gl.live
            /\ gl'.units = << old_wallpaper.texture,
                              IF last.mode = "Fit" THEN transparent_texture
                              ELSE current_wallpaper.texture >>
            /\ gl'.vbo = gl.vbo
            /\ animation_fit_changed' = animation_fit_changed
            /\ UNCHANGED <<old_wallpaper, current_wallpaper>> ]_vars

\* such a draw in Fit mode, at the tick the animation was started, with the
\* flag still set by the transition before
DrawAtStartAfterLoadWitness ==
    /\ epoch.first /\ FitDrawn /\ last.uploaded
    /\ time_started = 100 /\ last.time = time_started
    /\ animation_fit_changed
    /\ gl.units = <<old_wallpaper.texture, transparent_texture>>

\* C15: a draw in Stretch, Fill or Tile mode at a time >= time_started
\* uploads elapsed / animation_time when elapsed < animation_time and 1
\* from then on, and does not run the mid-transition step.
PlainDrawUploadsProgress ==
    ( /\ last.op = "draw" /\ last.res = "ok"
      /\ last.mode \in {"Stretch", "Fill", "Tile"}
      /\ last.time >= time_started ) =>
        LET elapsed == last.time - time_started
        IN  /\ last.uploaded /\ ~last.mid
            /\ last.sent = IF elapsed >= animation_time THEN One
                            ELSE Q(elapsed, animation_time)

\* a Tile draw in the second half of the duration
PlainDrawUploadsProgressWitness ==
    /\ last.op = "draw" /\ last.res = "ok" /\ last.mode = "Tile"
    /\ time_started = 100 /\ last.time = 251
    /\ last.sent = Q(151, 300)

\* the texture rectangle a vertex buffer carries for the current slot
\* (k = 2) or the old slot (k = 4)
TextureRectangle(vbo, k) ==
    Coordinates(vbo[1 + k], vbo[13 + k], vbo[8 + k], vbo[2 + k])

InUnitSquare(c) ==
    /\ QLe(Zero, c.x_left) /\ QLe(c.x_left, c.x_right) /\ QLe(c.x_right, One)
    /\ QLe(Zero, c.y_bottom) /\ QLe(c.y_bottom, c.y_top) /\ QLe(c.y_top, One)

CenteredAtHalf(c) ==
    /\ QAdd(c.x_left, c.x_right) = One
    /\ QAdd(c.y_bottom, c.y_top) = One

\* the last operation was a load_wallpaper or set_mode in Fill mode that
\* returned Ok, so the vertex buffer holds both slots' Fill rectangles
FillWritten ==
    /\ last.op \in {"load_wallpaper", "set_mode"}
    /\ last.res = "ok" /\ last.mode = "Fill"

\* C16: for every display and image size, the Fill texture rectangle of
\* the current wallpaper, as computed and as written to the vertex buffer,
\* lies inside [0,1] x [0,1] and is centered at (0.5, 0.5).
FillRectangleInsideTexture ==
    FillWritten =>
        LET c == generate_texture_coordinates(current_wallpaper, "Fill", display)
        IN  /\ TextureRectangle(gl.vbo, 2) = c
            /\ InUnitSquare(c)
            /\ CenteredAtHalf(c)

\* C17: in Fill mode, when the display is wider than the image the texture
\* rectangle is (left 0, right 1, bottom y, top 1 - y) with
\* y = (1 - display_ratio / image_ratio) / 2; when the display is taller it
\* is (left x, right 1 - x, bottom 0, top 1) with x given by the same
\* formula.
FillCropsByInset ==
    FillWritten =>
        LET dr == display_ratio(display)
            ir == image_ratio(current_wallpaper)
            inset == QDiv(QSub(One, QDiv(dr, ir)), Two)
            c == TextureRectangle(gl.vbo, 2)
        IN  /\ QLt(ir, dr) => c = Coordinates(Zero, One, inset, QSub(One, inset))
            /\ QLt(dr, ir) => c = Coordinates(inset, QSub(One, inset), Zero, One)

\* the device-space rectangle a vertex buffer carries
VertexRectangle(vbo) ==
    Coordinates(vbo[1], vbo[13], vbo[8], vbo[2])

\* C18: the Fit placement of the current wallpaper, as computed and as
\* written to the vertex buffer by the mid-transition step, is centered at
\* the origin; with the display wider than the image it spans the full
\* height and a horizontal half-extent image_ratio / display_ratio < 1;
\* with the display taller it spans the full width and its vertical extent
\* shrinks by the same amount at both edges; with equal ratios it is the
\* full device quad.
FitPlacementCentered ==
    (FitDrawn /\ last.mid) =>
        LET dr == display_ratio(display)
            ir == image_ratio(current_wallpaper)
            c == generate_vertices_coordinates_for_fit_mode(current_wallpaper,
                                                             display)
        IN  /\ VertexRectangle(gl.vbo) = c
            /\ VertexPositions(gl.vbo) = Placement(c)
            /\ QAdd(c.x_left, c.x_right) = Zero
            /\ QAdd(c.y_bottom, c.y_top) = Zero
            /\ dr = ir => c = default_vec_coordinates
            /\ QLt(ir, dr) =>
                  /\ c.x_right = QDiv(ir, dr)
                  /\ QLt(Zero, c.x_right) /\ QLt(c.x_right, One)
                  /\ c.y_bottom = VEC_Y_BOTTOM /\ c.y_top = VEC_Y_TOP
            /\ QLt(dr, ir) =>
                  /\ c.x_left = VEC_X_LEFT /\ c.x_right = VEC_X_RIGHT
                  /\ QLt(Zero, c.y_bottom) /\ QLt(c.y_bottom, One)
                  /\ QSub(VEC_Y_BOTTOM, c.y_bottom) = QSub(c.y_top, VEC_Y_TOP)

\* a 20x10 image on a 10x20 display: the quad keeps the full width and a
\* quarter of the height
FitPlacementCenteredWitness ==
    /\ FitDrawn /\ last.mid
    /\ display = <<10, 20>>
    /\ current_wallpaper.image_width = 20 /\ current_wallpaper.image_height = 10
    /\ VertexRectangle(gl.vbo) = Coordinates(QInt(-1), QInt(1), Q(1, 4), Q(-1, 4))

\* corner i of a rectangle: 0 top-left, 1 bottom-left, 2 bottom-right,
\* 3 top-right
Corner(c, i) ==
    << IF i \in {0, 1} THEN c.x_left ELSE c.x_right,
       IF i \in {0, 3} THEN c.y_top ELSE c.y_bottom >>

\* four vertices of six floats: position, current texcoord, old texcoord
Interleaved(vec, cur, old) ==
    [ j \in 1..24 |->
        LET i == (j - 1) \div 6
            k == (j - 1) % 6
        IN  IF k < 2 THEN Corner(vec, i)[k + 1]
            ELSE IF k < 4 THEN Corner(cur, i)[k - 1]
            ELSE Corner(old, i)[k - 3] ]

\* C19: the vertex buffer always holds 24 floats and the element buffer
\* the six indices 0,1,2,2,3,0, which nothing rewrites; every vertex buffer
\* written by set_mode (called directly, where last.ret records its
\* half_animation_for_fit_mode argument, or by the mid-transition step of
\* draw) is the interleaved array of the quad in the order top-left,
\* bottom-left, bottom-right, top-right, each vertex carrying its position,
\* its current texcoord and its old texcoord.
VertexBufferLayout ==
    /\ DOMAIN gl.vbo = 1..24
    /\ gl.eab = <<0, 1, 2, 2, 3, 0>>
    /\ (last.op = "set_mode" /\ last.res = "ok") =>
          gl.vbo = Interleaved(
              IF last.mode # "Fit" THEN default_vec_coordinates
              ELSE IF last.ret
              THEN generate_vertices_coordinates_for_fit_mode(current_wallpaper,
                                                              display)
              ELSE generate_texture_coordinates(old_wallpaper, "Fit", display),
              generate_texture_coordinates(current_wallpaper, last.mode, display),
              generate_texture_coordinates(old_wallpaper, last.mode, display))
    /\ (FitDrawn /\ last.mid) =>
          gl.vbo = Interleaved(
              generate_vertices_coordinates_for_fit_mode(current_wallpaper, display),
              default_texture_coordinates,
              default_texture_coordinates)

\* set_mode(Tile) with a 40x10 current and a 10x20 old image on a 20x10
\* display: the top-right vertex is (1, -1), (1/2, 1), (2, 1/2)
VertexBufferLayoutWitness ==
    /\ last.op = "set_mode" /\ last.res = "ok" /\ last.mode = "Tile"
    /\ display = <<20, 10>>
    /\ current_wallpaper.image_width = 40
    /\ old_wallpaper.image_width = 10 /\ old_wallpaper.image_height = 20
    /\ [k \in 1..6 |-> gl.vbo[18 + k]] =
           <<QInt(1), QInt(-1), Q(1, 2), QInt(1), QInt(2), Q(1, 2)>>

\* C20: in draw, the mid-transition step included, the check that follows
\* a failing OpenGL call is made before the next OpenGL call: draw returns
\* the error at the call that failed (last.late tells that a call of the
\* draw failed and the draw went on to a later call).
DrawChecksEveryCall ==
    last.op = "draw" => ~last.late

\* C21: a draw(time, mode) with time < time_started returns Ok, computes
\* progress 0 and completes the frame as a draw at time_started does: it
\* uploads u_progress = 0 and does not run the mid-transition step.
DrawBeforeStartClamps ==
    (last.op = "draw" /\ last.time < time_started) =>
        /\ last.res = "ok"
        /\ last.progress = Zero
        /\ last.uploaded /\ last.sent = Zero
        /\ ~last.mid

\* C22: a set_mode(Fit, half_animation_for_fit_mode) that returns Ok
\* writes as vertex positions the Fit placement of the old wallpaper when
\* the argument (recorded in last.ret) is false and of the current
\* wallpaper when it is true; either way a device-space rectangle centered
\* at the origin.
SetModeFitPlacement ==
    (last.op = "set_mode" /\ last.res = "ok" /\ last.mode = "Fit") =>
        LET c == VertexRectangle(gl.vbo)
        IN  /\ c = generate_vertices_coordinates_for_fit_mode(
                       IF last.ret THEN current_wallpaper ELSE old_wallpaper,
                       display)
            /\ VertexPositions(gl.vbo) = Placement(c)
            /\ QAdd(c.x_left, c.x_right) = Zero
            /\ QAdd(c.y_bottom, c.y_top) = Zero

\* C23: an is_drawing_animation(time) and the draw(time, mode) that
\* follows it at the same tick, time >= time_started, agree:
\* is_drawing_animation returned true exactly when the progress the draw
\* computes is below 1.
AnimationEndAgrees ==
    [][ ( /\ last.op = "is_drawing_animation" /\ last.res = "ok"
          /\ last'.op = "draw" /\ last'.res = "ok"
          /\ last'.time = last.time /\ last.time >= time_started ) =>
            (last.ret <=> QLt(last'.progress, One)) ]_vars

\* the image a wallpaper slot's texture holds is the one of the size the
\* slot records (a slot without a texture holds none)
SlotDescribesTexture(w, g) ==
    w.texture # 0 => <<w.image_width, w.image_height>> = g.image[w.texture]

\* C24: a load_wallpaper that returns an error from the texture upload (no
\* new handle is stored in a slot) leaves both slots as they were, and
\* each slot's recorded size is that of the image its texture holds.
FailedUploadKeepsSlots ==
    [][ ( /\ last'.op = "load_wallpaper" /\ last'.res = "err"
          /\ {old_wallpaper'.texture, current_wallpaper'.texture}
                 \subseteq {old_wallpaper.texture, current_wallpaper.texture} ) =>
            /\ old_wallpaper' = old_wallpaper
            /\ current_wallpaper' = current_wallpaper
            /\ SlotDescribesTexture(old_wallpaper', gl')
            /\ SlotDescribesTexture(current_wallpaper', gl') ]_vars

\* the last operation was a Fit draw that returned Ok at a tick with
\* elapsed >= animation_time
FitDrawnAtEnd ==
    /\ FitDrawn
    /\ last.time >= time_started
    /\ last.time - time_started >= animation_time

\* C25 as stated: once a load_wallpaper(image, Fit) has returned Ok and no
\* load has been made since, every Fit draw that returns Ok with
\* elapsed >= animation_time uploads u_progress = 1 and leaves unit 1
\* bound to the current wallpaper's texture, whether or not
\* start_animation was called after the load.
NewestImageShownAfterFitLoad ==
    (epoch.fit_load # "none" /\ FitDrawnAtEnd) =>
        /\ last.uploaded /\ last.sent = One
        /\ gl.units[2] = current_wallpaper.texture

\* C25: once a load_wallpaper(image, Fit) has returned Ok, start_animation
\* has been called after it and no load has been made since, every Fit draw
\* that returns Ok with elapsed >= animation_time uploads u_progress = 1
\* and leaves unit 1 bound to the current wallpaper's texture, a live
\* texture holding the image of the recorded size.
NewestImageShownAfterStartedFitLoad ==
    (epoch.fit_load = "started" /\ FitDrawnAtEnd) =>
        /\ last.uploaded /\ last.sent = One
        /\ gl.units[2] = current_wallpaper.texture
        /\ current_wallpaper.texture \in gl.live
        /\ SlotDescribesTexture(current_wallpaper, gl)

\* a Fit draw at the end of a transition that was loaded after the
\* transition before had run its mid-transition step, and then started:
\* the draw itself runs the step again
NewestImageShownAfterStartedFitLoadWitness ==
    /\ epoch.fit_load = "started" /\ FitDrawnAtEnd
    /\ epoch.over = "after" /\ last.mid
    /\ gl.units = <<transparent_texture, current_wallpaper.texture>>

====
